---- MODULE Spec2Model ----
(***************************************************************************)
(* Smart Home System on the RL-ARM RTX kernel (Blinky.c): the ceiling      *)
(* manager (ICPP / OCPP over mut_ceiling), the shared sensor state guarded *)
(* by sem_sensors, the log mailbox and the periodic task set.              *)
(*                                                                         *)
(* Kernel calls follow RTL.h: os_mut_wait, os_sem_wait and os_mbx_wait     *)
(* return OS_R_OK only when the object was available at the call; a caller *)
(* that had to block and was then served is resumed with OS_R_MUT,         *)
(* OS_R_SEM or OS_R_MBX, and with OS_R_TMO when its timeout expires.       *)
(* A timeout of 0xffff waits without limit.  Tasks are interleaved at      *)
(* kernel calls and at accesses to shared variables.                       *)
(***************************************************************************)
EXTENDS Integers, Sequences, FiniteSets, TLC

VARIABLES
  pc,             \* position of every task
  ra,             \* where a task continues after a ceiling-manager call, by result
  arg,            \* resource_ceiling argument of the current OCPP call
  mut_ceiling,    \* OS_MUT mut_ceiling
  ceiling_owner,  \* owner tid for ICPP, 0 = none
  system_ceiling, \* current system ceiling, 0 = none
  icpp_granted,   \* history: tasks whose icpp_acquire returned 1, not yet released
  ocpp_granted,   \* history: ceiling a task was granted by ocpp_acquire, 0 = none
  cond_held,      \* history: the test of a blocked OCPP call held since the call
  sem_sensors,    \* OS_SEM sem_sensors
  sem_holders,    \* history: tasks that took a token and have not sent it back
  mut_lcd,        \* OS_MUT mut_lcd
  msgbox,         \* the mailbox: queued pointers, blocked senders, waiting receiver
  log_pool,       \* the text of the MSGBOX_SIZE backing slots
  log_pool_put,
  log_pool_get,
  n_sent,         \* history: messages the mailbox accepted
  n_recv,         \* history: messages os_mbx_wait took out with OS_R_OK
  n_drop,         \* history: messages handed to the waiting logger (OS_R_MBX)
  sensor_temp,
  sensor_light,
  motion_detected,
  emergency_flag,
  temp,           \* temp_task: temp
  rising,         \* temp_task: rising
  light,          \* light_task: light
  darkening,      \* light_task: darkening
  level,          \* level of temp_task and of light_task
  idx,            \* idx of temp_task and of light_task
  reg,            \* the value of log_pool_put loaded by log_pool_put++
  msg,            \* logger_task: msg, -1 = none
  iter            \* loop iterations started by temp_task and by light_task

ceil_vars == <<ra, arg, mut_ceiling, ceiling_owner, system_ceiling,
               icpp_granted, ocpp_granted, cond_held>>
sens_vars == <<sem_sensors, sem_holders, sensor_temp, sensor_light,
               motion_detected, emergency_flag>>
log_vars  == <<msgbox, log_pool, log_pool_put, log_pool_get, n_sent, n_recv,
               n_drop, idx, reg, msg>>
loc_vars  == <<temp, rising, light, darkening, level, iter>>
task_vars == <<sens_vars, log_vars, loc_vars, mut_lcd>>
vars == <<pc, ceil_vars, task_vars>>

(* ---------------- bounds ---------------- *)
\* the first NCallers tasks of CallerOrder call the ceiling manager in the harness
NCallers == 2
\* resource ceilings 1..MaxCeil are passed in the call harness
MaxCeil == 2
\* loop iterations of temp_task and of light_task
MaxTempIter == 1
MaxLightIter == 1
\* cycles temp_task / light_task have gone through before the sensor walks start
MaxTempWalk == 40
MaxLightWalk == 32

(* ---------------- kernel return codes (RTL.h) ---------------- *)
OS_R_OK  == "OS_R_OK"
OS_R_TMO == "OS_R_TMO"
OS_R_SEM == "OS_R_SEM"
OS_R_MBX == "OS_R_MBX"
OS_R_MUT == "OS_R_MUT"

(* ---------------- task ids, in creation order ---------------- *)
t_temp      == 1
t_light     == 2
t_motion    == 3
t_display   == 4
t_logger    == 5
t_emergency == 6
t_clock     == 7

MAX_TASKS == 12
NotFound == 2147483647

\* register_task: append <<tid, prio>> while the table has room
register_task(table, tid, prio) ==
  IF Len(table) < MAX_TASKS
    THEN Append(table, [tid |-> tid, base_prio |-> prio])
    ELSE table

\* the table after init() has created and registered the seven tasks
task_table ==
  register_task(register_task(register_task(register_task(
  register_task(register_task(register_task(<<>>,
    t_temp, 3), t_light, 4), t_motion, 2), t_display, 5),
    t_logger, 6), t_emergency, 1), t_clock, 7)

\* get_base_priority: first matching entry, 0x7fffffff when there is none
get_base_priority(tid) ==
  IF \E i \in 1..Len(task_table) : task_table[i].tid = tid
    THEN LET i == CHOOSE j \in 1..Len(task_table) :
                    /\ task_table[j].tid = tid
                    /\ \A k \in 1..(j-1) : task_table[k].tid # tid
         IN task_table[i].base_prio
    ELSE NotFound

\* the kernel serves the waiter of highest task priority first (rt_put_prio);
\* the kernel priority of a task is the number given to os_tsk_create
FirstWaiter(ws) ==
  CHOOSE t \in ws : \A u \in ws : get_base_priority(t) >= get_base_priority(u)

(* ---------------- OS_MUT ---------------- *)
MutInit == [owner |-> 0, level |-> 0, waiters |-> {}]

\* os_mut_wait returns OS_R_OK at once: the mutex is free or already owned
MutAvail(m, self) == m.level = 0 \/ m.owner = self

MutTake(m, self) == [m EXCEPT !.owner = self, !.level = m.level + 1]

MutBlock(m, self) == [m EXCEPT !.waiters = m.waiters \cup {self}]

\* os_mut_release: the first waiter becomes the owner (it resumes with OS_R_MUT)
MutRelease(m, self) ==
  IF m.level = 0 \/ m.owner # self THEN m
  ELSE IF m.level > 1 THEN [m EXCEPT !.level = m.level - 1]
  ELSE IF m.waiters # {}
    THEN [owner |-> FirstWaiter(m.waiters), level |-> 1,
          waiters |-> m.waiters \ {FirstWaiter(m.waiters)}]
    ELSE MutInit

(* ---------------- ceiling manager ---------------- *)
\* a test that admits the numerically higher priorities
ocpp_admit_below(myprio, resource_ceiling, ceiling) ==
  myprio >= resource_ceiling /\ (ceiling = 0 \/ myprio >= ceiling)

\* the test of ocpp_acquire
ocpp_admit(myprio, resource_ceiling, ceiling) ==
  myprio <= resource_ceiling /\ (ceiling = 0 \/ myprio <= ceiling)

\* the test of ocpp_release
ocpp_match(resource_ceiling, ceiling) == ceiling = resource_ceiling

\* a test of icpp_acquire that does not look at the owner
icpp_free_always(owner) == TRUE

\* the test of icpp_acquire
icpp_free(owner) == owner = 0

\* the test of icpp_release
icpp_mine(owner, self) == owner = self

\* history of the blocked OCPP calls when system_ceiling becomes c
HeldAfter(c) ==
  [t \in DOMAIN cond_held |->
     IF pc[t] = "ocpp_acquire_mw"
       THEN cond_held[t] /\ ocpp_admit(get_base_priority(t), arg[t], c)
     ELSE IF pc[t] = "ocpp_release_mw"
       THEN cond_held[t] /\ ocpp_match(arg[t], c)
     ELSE cond_held[t]]

\* os_mut_wait(&mut_ceiling, 0xffff) at the head of function fn: the caller
\* goes on with the mutex (OS_R_OK) or waits for it without limit
ceiling_wait(self, fn) ==
  IF MutAvail(mut_ceiling, self)
    THEN /\ mut_ceiling' = MutTake(mut_ceiling, self)
         /\ pc' = [pc EXCEPT ![self] = fn \o "_cs"]
    ELSE /\ mut_ceiling' = MutBlock(mut_ceiling, self)
         /\ pc' = [pc EXCEPT ![self] = fn \o "_mw"]

\* the call icpp_acquire(self), up to its os_mut_wait
call_icpp_acquire(self) ==
  /\ ceiling_wait(self, "icpp_acquire")
  /\ UNCHANGED <<ra, arg, ceiling_owner, system_ceiling,
                 icpp_granted, ocpp_granted, cond_held>>

\* icpp_acquire after its os_mut_wait: resumed with OS_R_MUT, which is not
\* OS_R_OK, it returns 0 at once; with OS_R_OK it tests the owner
icpp_acquire(self) ==
  /\ IF pc[self] = "icpp_acquire_mw"
       THEN /\ mut_ceiling.owner = self
            /\ pc' = [pc EXCEPT ![self] = ra[self].icpp_acquire[0]]
            /\ UNCHANGED <<mut_ceiling, ceiling_owner, icpp_granted>>
       ELSE /\ pc[self] = "icpp_acquire_cs"
            /\ IF icpp_free(ceiling_owner)
                 THEN /\ ceiling_owner' = self
                      /\ icpp_granted' = icpp_granted \cup {self}
                      /\ pc' = [pc EXCEPT ![self] = ra[self].icpp_acquire[1]]
                 ELSE /\ pc' = [pc EXCEPT ![self] = ra[self].icpp_acquire[0]]
                      /\ UNCHANGED <<ceiling_owner, icpp_granted>>
            /\ mut_ceiling' = MutRelease(mut_ceiling, self)
  /\ UNCHANGED <<ra, arg, system_ceiling, ocpp_granted, cond_held>>

\* the call icpp_release(self), up to its os_mut_wait
call_icpp_release(self) ==
  /\ ceiling_wait(self, "icpp_release")
  /\ UNCHANGED <<ra, arg, ceiling_owner, system_ceiling,
                 icpp_granted, ocpp_granted, cond_held>>

\* an icpp_release that also gives the system ceiling back
icpp_release_both(self) ==
  /\ pc[self] \in {"icpp_release_mw", "icpp_release_cs"}
  /\ pc[self] = "icpp_release_mw" => mut_ceiling.owner = self
  /\ ceiling_owner' =
       IF pc[self] = "icpp_release_cs" /\ icpp_mine(ceiling_owner, self)
         THEN 0 ELSE ceiling_owner
  /\ system_ceiling' = IF pc[self] = "icpp_release_cs" THEN 0 ELSE system_ceiling
  /\ mut_ceiling' =
       IF pc[self] = "icpp_release_cs" THEN MutRelease(mut_ceiling, self) ELSE mut_ceiling
  /\ pc' = [pc EXCEPT ![self] = ra[self].icpp_release]
  /\ icpp_granted' = icpp_granted \ {self}
  /\ UNCHANGED <<ra, arg, ocpp_granted, cond_held>>

\* icpp_release after its os_mut_wait: resumed with OS_R_MUT it returns at once
icpp_release(self) ==
  /\ IF pc[self] = "icpp_release_mw"
       THEN /\ mut_ceiling.owner = self
            /\ UNCHANGED <<mut_ceiling, ceiling_owner>>
       ELSE /\ pc[self] = "icpp_release_cs"
            /\ ceiling_owner' =
                 IF icpp_mine(ceiling_owner, self) THEN 0 ELSE ceiling_owner
            /\ mut_ceiling' = MutRelease(mut_ceiling, self)
  /\ pc' = [pc EXCEPT ![self] = ra[self].icpp_release]
  /\ icpp_granted' = icpp_granted \ {self}
  /\ UNCHANGED <<ra, arg, system_ceiling, ocpp_granted, cond_held>>

\* the call ocpp_acquire(self, r), up to its os_mut_wait
call_ocpp_acquire(self, r) ==
  /\ ceiling_wait(self, "ocpp_acquire")
  /\ arg' = [arg EXCEPT ![self] = r]
  /\ cond_held' = [cond_held EXCEPT ![self] =
                     /\ ~MutAvail(mut_ceiling, self)
                     /\ ocpp_admit(get_base_priority(self), r, system_ceiling)]
  /\ UNCHANGED <<ra, ceiling_owner, system_ceiling, icpp_granted, ocpp_granted>>

\* ocpp_acquire after its os_mut_wait: resumed with OS_R_MUT it returns 0 at
\* once; with OS_R_OK it tests the ceilings
ocpp_acquire(self) ==
  /\ IF pc[self] = "ocpp_acquire_mw"
       THEN /\ mut_ceiling.owner = self
            /\ pc' = [pc EXCEPT ![self] = ra[self].ocpp_acquire[0]]
            /\ cond_held' = [cond_held EXCEPT ![self] = FALSE]
            /\ UNCHANGED <<mut_ceiling, system_ceiling, ocpp_granted>>
       ELSE /\ pc[self] = "ocpp_acquire_cs"
            /\ IF ocpp_admit(get_base_priority(self), arg[self], system_ceiling)
                 THEN /\ system_ceiling' = arg[self]
                      /\ ocpp_granted' = [ocpp_granted EXCEPT ![self] = arg[self]]
                      /\ cond_held' = HeldAfter(arg[self])
                      /\ pc' = [pc EXCEPT ![self] = ra[self].ocpp_acquire[1]]
                 ELSE /\ pc' = [pc EXCEPT ![self] = ra[self].ocpp_acquire[0]]
                      /\ UNCHANGED <<system_ceiling, ocpp_granted, cond_held>>
            /\ mut_ceiling' = MutRelease(mut_ceiling, self)
  /\ arg' = [arg EXCEPT ![self] = 0]
  /\ UNCHANGED <<ra, ceiling_owner, icpp_granted>>

\* a release of ceiling r by self ends the grant of r to self, if any
Ungrant(self, r) ==
  IF ocpp_granted[self] = r THEN [ocpp_granted EXCEPT ![self] = 0] ELSE ocpp_granted

\* the call ocpp_release(self, r), up to its os_mut_wait
call_ocpp_release(self, r) ==
  /\ ceiling_wait(self, "ocpp_release")
  /\ arg' = [arg EXCEPT ![self] = r]
  /\ cond_held' = [cond_held EXCEPT ![self] =
                     /\ ~MutAvail(mut_ceiling, self)
                     /\ ocpp_match(r, system_ceiling)]
  /\ UNCHANGED <<ra, ceiling_owner, system_ceiling, icpp_granted, ocpp_granted>>

\* ocpp_release after its os_mut_wait: resumed with OS_R_MUT it returns at once
ocpp_release(self) ==
  /\ IF pc[self] = "ocpp_release_mw"
       THEN /\ mut_ceiling.owner = self
            /\ cond_held' = [cond_held EXCEPT ![self] = FALSE]
            /\ UNCHANGED <<mut_ceiling, system_ceiling>>
       ELSE /\ pc[self] = "ocpp_release_cs"
            /\ IF ocpp_match(arg[self], system_ceiling)
                 THEN /\ system_ceiling' = 0
                      /\ cond_held' = HeldAfter(0)
                 ELSE UNCHANGED <<system_ceiling, cond_held>>
            /\ mut_ceiling' = MutRelease(mut_ceiling, self)
  /\ pc' = [pc EXCEPT ![self] = ra[self].ocpp_release]
  /\ ocpp_granted' = Ungrant(self, arg[self])
  /\ arg' = [arg EXCEPT ![self] = 0]
  /\ UNCHANGED <<ra, ceiling_owner, icpp_granted>>

\* a task inside one of the four functions takes the function's next step
ceiling_manager(self) ==
  /\ CASE pc[self] \in {"icpp_acquire_mw", "icpp_acquire_cs"} -> icpp_acquire(self)
       [] pc[self] \in {"icpp_release_mw", "icpp_release_cs"} -> icpp_release(self)
       [] pc[self] \in {"ocpp_acquire_mw", "ocpp_acquire_cs"} -> ocpp_acquire(self)
       [] pc[self] \in {"ocpp_release_mw", "ocpp_release_cs"} -> ocpp_release(self)
       [] OTHER -> FALSE
  /\ UNCHANGED task_vars

(* ---------------- OS_SEM ---------------- *)
SemInit(n) == [tokens |-> n, waiters |-> {}]

\* os_sem_wait: a token is taken at once (OS_R_OK) or the caller is queued
SemAvail(s) == s.tokens > 0
SemTake(s) == [s EXCEPT !.tokens = s.tokens - 1]
SemBlock(s, self) == [s EXCEPT !.waiters = s.waiters \cup {self}]
\* the timeout of a queued caller expires (OS_R_TMO)
SemTimeout(s, self) == [s EXCEPT !.waiters = s.waiters \ {self}]

\* os_sem_send: the token goes to the first waiter (it resumes with OS_R_SEM),
\* to the counter when nobody waits
SemSend(s) ==
  IF s.waiters # {}
    THEN [s EXCEPT !.waiters = s.waiters \ {FirstWaiter(s.waiters)}]
    ELSE [s EXCEPT !.tokens = s.tokens + 1]

\* the holders after self has sent the token back
HoldersAfterSend(s, self) ==
  (sem_holders \ {self}) \cup
    (IF s.waiters # {} THEN {FirstWaiter(s.waiters)} ELSE {})

(* ---------------- mailbox ---------------- *)
MSGBOX_SIZE == 5
MbxInit == [msgs |-> <<>>, senders |-> {}, recv |-> FALSE]

\* os_mbx_send finds every entry of the mailbox taken
MbxFull(m) == Len(m.msgs) >= MSGBOX_SIZE
\* os_mbx_send: the pointer goes into a free entry
MbxPut(m, p) == [m EXCEPT !.msgs = Append(m.msgs, p)]
\* os_mbx_send: the pointer goes straight to the waiting receiver
MbxHandOver(m) == [m EXCEPT !.recv = FALSE]
\* os_mbx_send: the sender is queued
MbxBlock(m, self) == [m EXCEPT !.senders = m.senders \cup {self}]
\* the timeout of a queued sender expires (OS_R_TMO)
MbxTimeout(m, self) == [m EXCEPT !.senders = m.senders \ {self}]
\* an os_mbx_wait that reads the oldest pointer and leaves it in the mailbox
MbxPeek(m) == m

\* os_mbx_wait: the oldest pointer is taken out
MbxTake(m) == [m EXCEPT !.msgs = Tail(m.msgs)]
\* os_mbx_wait: the pointer p of the queued sender t moves into the freed entry
MbxAdmit(m, t, p) ==
  [m EXCEPT !.msgs = Append(m.msgs, p), !.senders = m.senders \ {t}]

(* ---------------- tasks ---------------- *)
\* temperature -> fan level
\* a table that puts 30 one level too low
fan_level_late(t) == IF t < 25 THEN 0 ELSE IF t <= 30 THEN 1 ELSE IF t < 35 THEN 2 ELSE 3

fan_level(t) == IF t < 25 THEN 0 ELSE IF t < 30 THEN 1 ELSE IF t < 35 THEN 2 ELSE 3

\* light -> room level
room_level(l) == IF l < 25 THEN 0 ELSE IF l < 50 THEN 1 ELSE IF l < 75 THEN 2 ELSE 3

LIGHT_RESOURCE_CEILING == 2

\* a light_task that never takes the motion override
light_override_never(m) == FALSE

\* light_task: if (motion_detected)
light_override(m) == m # 0

\* os_sem_wait(&sem_sensors, 50) of a sensor task: on OS_R_OK it enters the
\* guarded section, otherwise it waits
sensors_wait(self, crit, wait) ==
  IF SemAvail(sem_sensors)
    THEN /\ sem_sensors' = SemTake(sem_sensors)
         /\ sem_holders' = sem_holders \cup {self}
         /\ pc' = [pc EXCEPT ![self] = crit]
    ELSE /\ sem_sensors' = SemBlock(sem_sensors, self)
         /\ pc' = [pc EXCEPT ![self] = wait]
         /\ UNCHANGED sem_holders

\* the end of a bounded wait on sem_sensors: OS_R_TMO while still queued,
\* OS_R_SEM once a sender has passed the token; neither is OS_R_OK and the
\* guarded section is skipped
sensors_resume(self, next) ==
  /\ sem_sensors' = SemTimeout(sem_sensors, self)
  /\ pc' = [pc EXCEPT ![self] = next]
  /\ UNCHANGED sem_holders

\* log_pool_put % MSGBOX_SIZE
log_idx(self, next) ==
  /\ idx' = [idx EXCEPT ![self] = log_pool_put % MSGBOX_SIZE]
  /\ pc' = [pc EXCEPT ![self] = next]
  /\ UNCHANGED <<msgbox, log_pool, log_pool_put, log_pool_get, n_sent, n_recv, n_drop,
               reg, msg>>

\* sprintf(log_pool[idx], ...)
log_fill(self, text, next) ==
  /\ log_pool' = [log_pool EXCEPT ![idx[self]] = text]
  /\ pc' = [pc EXCEPT ![self] = next]
  /\ UNCHANGED <<msgbox, log_pool_put, log_pool_get, n_sent, n_recv, n_drop, idx, reg,
               msg>>

\* os_mbx_send(&msgbox, log_pool[idx], 40): the pointer goes to the waiting
\* receiver or into a free entry (OS_R_OK), or the sender is queued
log_send(self, ok, wait) ==
  /\ IF msgbox.recv
       THEN /\ msgbox' = MbxHandOver(msgbox)
            /\ msg' = idx[self]
            /\ n_sent' = n_sent + 1
            /\ n_drop' = n_drop + 1
            /\ pc' = [pc EXCEPT ![self] = ok]
       ELSE IF ~MbxFull(msgbox)
         THEN /\ msgbox' = MbxPut(msgbox, idx[self])
              /\ n_sent' = n_sent + 1
              /\ pc' = [pc EXCEPT ![self] = ok]
              /\ UNCHANGED <<msg, n_drop>>
         ELSE /\ msgbox' = MbxBlock(msgbox, self)
              /\ pc' = [pc EXCEPT ![self] = wait]
              /\ UNCHANGED <<msg, n_sent, n_drop>>
  /\ UNCHANGED <<log_pool, log_pool_put, log_pool_get, n_recv, idx, reg>>

\* a producer that goes on to log_pool_put++ whatever os_mbx_send returned
log_send_resume_always(self, ok, fail) ==
  /\ msgbox' = MbxTimeout(msgbox, self)
  /\ pc' = [pc EXCEPT ![self] = ok]
  /\ UNCHANGED <<log_pool, log_pool_put, log_pool_get, n_sent, n_recv, n_drop, idx,
                 reg, msg>>

\* the end of a bounded wait in os_mbx_send: OS_R_TMO while still queued (the
\* cursor is not advanced), OS_R_OK once the receiver has taken the pointer in
log_send_resume(self, ok, fail) ==
  /\ IF self \in msgbox.senders
       THEN /\ msgbox' = MbxTimeout(msgbox, self)
            /\ idx' = [idx EXCEPT ![self] = 0]
            /\ pc' = [pc EXCEPT ![self] = fail]
       ELSE /\ pc' = [pc EXCEPT ![self] = ok]
            /\ UNCHANGED <<msgbox, idx>>
  /\ UNCHANGED <<log_pool, log_pool_put, log_pool_get, n_sent, n_recv, n_drop, reg, msg>>

\* log_pool_put++ : the load
log_inc(self, next) ==
  /\ reg' = [reg EXCEPT ![self] = log_pool_put]
  /\ pc' = [pc EXCEPT ![self] = next]
  /\ UNCHANGED <<msgbox, log_pool, log_pool_put, log_pool_get, n_sent, n_recv, n_drop,
               idx, msg>>

\* log_pool_put++ : the store
log_store(self, next) ==
  /\ log_pool_put' = reg[self] + 1
  /\ reg' = [reg EXCEPT ![self] = 0]
  /\ idx' = [idx EXCEPT ![self] = 0]
  /\ pc' = [pc EXCEPT ![self] = next]
  /\ UNCHANGED <<msgbox, log_pool, log_pool_get, n_sent, n_recv, n_drop, msg>>

\* a walk that turns one step late at the top
temp_turn_late(t, r) == IF t <= 20 THEN 1 ELSE IF t >= 41 THEN 0 ELSE r

\* temp_task: if (temp >= 40) rising = 0; if (temp <= 20) rising = 1;
temp_turn(t, r) == IF t <= 20 THEN 1 ELSE IF t >= 40 THEN 0 ELSE r

temp_task ==
  LET self == t_temp IN
  CASE pc[self] = "t_start" ->
         \* temp++ / temp--, os_sem_wait(&sem_sensors, 50)
         /\ iter[self] < MaxTempIter
         /\ iter' = [iter EXCEPT ![self] = iter[self] + 1]
         /\ LET t == IF rising = 1 THEN temp + 1 ELSE temp - 1
            IN /\ temp' = t
               /\ rising' = temp_turn(t, rising)
               /\ level' = [level EXCEPT ![self] = fan_level(t)]
         /\ sensors_wait(self, "t_crit", "t_sw")
         /\ UNCHANGED <<ceil_vars, log_vars, mut_lcd, light, darkening, sensor_temp,
                        sensor_light, motion_detected, emergency_flag>>
    [] pc[self] = "t_sw" ->
         /\ sensors_resume(self, "t_icpp")
         /\ UNCHANGED <<ceil_vars, log_vars, loc_vars, mut_lcd, sensor_temp,
                        sensor_light, motion_detected, emergency_flag>>
    [] pc[self] = "t_crit" ->
         \* sensor_temp = temp; os_sem_send(&sem_sensors)
         /\ sensor_temp' = temp
         /\ sem_sensors' = SemSend(sem_sensors)
         /\ sem_holders' = HoldersAfterSend(sem_sensors, self)
         /\ pc' = [pc EXCEPT ![self] = "t_icpp"]
         /\ UNCHANGED <<ceil_vars, log_vars, loc_vars, mut_lcd,
                        sensor_light, motion_detected, emergency_flag>>
    [] pc[self] = "t_icpp" ->
         \* while (!icpp_acquire(self)) os_dly_wait(5)
         /\ call_icpp_acquire(self)
         /\ UNCHANGED task_vars
    [] pc[self] = "t_led" ->
         \* update_temp_leds(level); icpp_release(self)
         /\ call_icpp_release(self)
         /\ UNCHANGED task_vars
    [] pc[self] = "t_log" ->
         /\ log_idx(self, "t_fill")
         /\ UNCHANGED <<ceil_vars, sens_vars, loc_vars, mut_lcd>>
    [] pc[self] = "t_fill" ->
         /\ log_fill(self, <<"Temp", temp, level[self]>>, "t_send")
         /\ UNCHANGED <<ceil_vars, sens_vars, loc_vars, mut_lcd>>
    [] pc[self] = "t_send" ->
         /\ log_send(self, "t_inc", "t_mw")
         /\ UNCHANGED <<ceil_vars, sens_vars, loc_vars, mut_lcd>>
    [] pc[self] = "t_mw" ->
         \* on OS_R_TMO: os_evt_set(EVT_TEMP_UPDATE, t_display); os_dly_wait(200)
         /\ log_send_resume(self, "t_inc", "t_start")
         /\ UNCHANGED <<ceil_vars, sens_vars, loc_vars, mut_lcd>>
    [] pc[self] = "t_inc" ->
         /\ log_inc(self, "t_store")
         /\ UNCHANGED <<ceil_vars, sens_vars, loc_vars, mut_lcd>>
    [] pc[self] = "t_store" ->
         \* then os_evt_set(EVT_TEMP_UPDATE, t_display); os_dly_wait(200)
         /\ log_store(self, "t_start")
         /\ UNCHANGED <<ceil_vars, sens_vars, loc_vars, mut_lcd>>
    [] OTHER -> ceiling_manager(self)

light_task ==
  LET self == t_light IN
  CASE pc[self] = "l_start" ->
         \* light += 5 / light -= 5, os_sem_wait(&sem_sensors, 50)
         /\ iter[self] < MaxLightIter
         /\ iter' = [iter EXCEPT ![self] = iter[self] + 1]
         /\ LET l == IF darkening = 1 THEN light + 5 ELSE light - 5
            IN /\ light' = l
               /\ darkening' = IF l <= 10 THEN 1 ELSE IF l >= 90 THEN 0 ELSE darkening
               /\ level' = [level EXCEPT ![self] = room_level(l)]
         /\ sensors_wait(self, "l_crit", "l_sw")
         /\ UNCHANGED <<ceil_vars, log_vars, mut_lcd, temp, rising, sensor_temp,
                        sensor_light, motion_detected, emergency_flag>>
    [] pc[self] = "l_sw" ->
         /\ sensors_resume(self, "l_motion")
         /\ UNCHANGED <<ceil_vars, log_vars, loc_vars, mut_lcd, sensor_temp,
                        sensor_light, motion_detected, emergency_flag>>
    [] pc[self] = "l_crit" ->
         \* sensor_light = light; os_sem_send(&sem_sensors)
         /\ sensor_light' = light
         /\ sem_sensors' = SemSend(sem_sensors)
         /\ sem_holders' = HoldersAfterSend(sem_sensors, self)
         /\ pc' = [pc EXCEPT ![self] = "l_motion"]
         /\ UNCHANGED <<ceil_vars, log_vars, loc_vars, mut_lcd,
                        sensor_temp, motion_detected, emergency_flag>>
    [] pc[self] = "l_motion" ->
         \* if (motion_detected) flash all LEDs for 100 ticks,
         \* else ocpp_acquire(self, LIGHT_RESOURCE_CEILING)
         /\ IF light_override(motion_detected)
              THEN /\ pc' = [pc EXCEPT ![self] = "l_flash"]
                   /\ UNCHANGED ceil_vars
              ELSE call_ocpp_acquire(self, LIGHT_RESOURCE_CEILING)
         /\ UNCHANGED task_vars
    [] pc[self] = "l_flash" ->
         \* FIO2SET = 0xFF; os_dly_wait(100); FIO2CLR = 0xFF
         /\ pc' = [pc EXCEPT ![self] = "l_log"]
         /\ UNCHANGED <<ceil_vars, task_vars>>
    [] pc[self] = "l_led" ->
         \* acquired: update_light_leds(level); ocpp_release(self, ...)
         /\ call_ocpp_release(self, LIGHT_RESOURCE_CEILING)
         /\ UNCHANGED task_vars
    [] pc[self] = "l_plain" ->
         \* not acquired: update_light_leds(level) without the resource
         /\ pc' = [pc EXCEPT ![self] = "l_log"]
         /\ UNCHANGED <<ceil_vars, task_vars>>
    [] pc[self] = "l_log" ->
         /\ log_idx(self, "l_fill")
         /\ UNCHANGED <<ceil_vars, sens_vars, loc_vars, mut_lcd>>
    [] pc[self] = "l_fill" ->
         /\ log_fill(self, <<"Light", light, level[self]>>, "l_send")
         /\ UNCHANGED <<ceil_vars, sens_vars, loc_vars, mut_lcd>>
    [] pc[self] = "l_send" ->
         /\ log_send(self, "l_inc", "l_mw")
         /\ UNCHANGED <<ceil_vars, sens_vars, loc_vars, mut_lcd>>
    [] pc[self] = "l_mw" ->
         \* on OS_R_TMO: os_evt_set(EVT_LIGHT_UPDATE, t_display); os_dly_wait(50)
         /\ log_send_resume(self, "l_inc", "l_start")
         /\ UNCHANGED <<ceil_vars, sens_vars, loc_vars, mut_lcd>>
    [] pc[self] = "l_inc" ->
         /\ log_inc(self, "l_store")
         /\ UNCHANGED <<ceil_vars, sens_vars, loc_vars, mut_lcd>>
    [] pc[self] = "l_store" ->
         \* then os_evt_set(EVT_LIGHT_UPDATE, t_display); os_dly_wait(50)
         /\ log_store(self, "l_start")
         /\ UNCHANGED <<ceil_vars, sens_vars, loc_vars, mut_lcd>>
    [] OTHER -> ceiling_manager(self)

motion_task ==
  LET self == t_motion IN
  CASE pc[self] = "m_set" ->
         \* os_dly_wait(800); motion_detected = 1; os_evt_set twice
         /\ motion_detected' = 1
         /\ pc' = [pc EXCEPT ![self] = "m_clear"]
         /\ UNCHANGED <<ceil_vars, log_vars, loc_vars, mut_lcd, sem_sensors,
                        sem_holders, sensor_temp, sensor_light, emergency_flag>>
    [] pc[self] = "m_clear" ->
         \* os_dly_wait(400); motion_detected = 0
         /\ motion_detected' = 0
         /\ pc' = [pc EXCEPT ![self] = "m_set"]
         /\ UNCHANGED <<ceil_vars, log_vars, loc_vars, mut_lcd, sem_sensors,
                        sem_holders, sensor_temp, sensor_light, emergency_flag>>
    [] OTHER -> FALSE

\* os_mut_wait(&mut_lcd, ...): on OS_R_OK the caller goes on with the mutex
lcd_wait(self, crit, wait) ==
  IF MutAvail(mut_lcd, self)
    THEN /\ mut_lcd' = MutTake(mut_lcd, self)
         /\ pc' = [pc EXCEPT ![self] = crit]
    ELSE /\ mut_lcd' = MutBlock(mut_lcd, self)
         /\ pc' = [pc EXCEPT ![self] = wait]

\* the end of a bounded wait on mut_lcd: OS_R_TMO while still queued, OS_R_MUT
\* once the mutex was passed on; neither is OS_R_OK
lcd_resume(self, next) ==
  /\ mut_lcd' = [mut_lcd EXCEPT !.waiters = mut_lcd.waiters \ {self}]
  /\ pc' = [pc EXCEPT ![self] = next]

display_task ==
  LET self == t_display IN
  CASE pc[self] = "d_wait" ->
         \* os_evt_wait_or(..., 200) ends by an event or by its timeout, then
         \* os_sem_wait(&sem_sensors, 50)
         /\ sensors_wait(self, "d_crit", "d_sw")
         /\ UNCHANGED <<ceil_vars, log_vars, loc_vars, mut_lcd, sensor_temp,
                        sensor_light, motion_detected, emergency_flag>>
    [] pc[self] = "d_sw" ->
         /\ sensors_resume(self, "d_wait")
         /\ UNCHANGED <<ceil_vars, log_vars, loc_vars, mut_lcd, sensor_temp,
                        sensor_light, motion_detected, emergency_flag>>
    [] pc[self] = "d_crit" ->
         \* temp = sensor_temp; light = sensor_light; motion = motion_detected;
         \* os_sem_send(&sem_sensors)
         /\ sem_sensors' = SemSend(sem_sensors)
         /\ sem_holders' = HoldersAfterSend(sem_sensors, self)
         /\ pc' = [pc EXCEPT ![self] = "d_lcdw"]
         /\ UNCHANGED <<ceil_vars, log_vars, loc_vars, mut_lcd, sensor_temp,
                        sensor_light, motion_detected, emergency_flag>>
    [] pc[self] = "d_lcdw" ->
         \* os_mut_wait(&mut_lcd, 100)
         /\ lcd_wait(self, "d_lcd", "d_lw")
         /\ UNCHANGED <<ceil_vars, sens_vars, log_vars, loc_vars>>
    [] pc[self] = "d_lw" ->
         /\ lcd_resume(self, "d_wait")
         /\ UNCHANGED <<ceil_vars, sens_vars, log_vars, loc_vars>>
    [] pc[self] = "d_lcd" ->
         \* LCD_cls, LCD_puts(line), os_mut_release(&mut_lcd)
         /\ mut_lcd' = MutRelease(mut_lcd, self)
         /\ pc' = [pc EXCEPT ![self] = "d_wait"]
         /\ UNCHANGED <<ceil_vars, sens_vars, log_vars, loc_vars>>
    [] OTHER -> FALSE

logger_task ==
  LET self == t_logger IN
  CASE pc[self] = "g_wait" ->
         \* os_mbx_wait(&msgbox, &msg, 120): the oldest pointer is taken and the
         \* first blocked sender's pointer moves in (OS_R_OK), or the logger waits
         /\ IF Len(msgbox.msgs) > 0
              THEN /\ msg' = Head(msgbox.msgs)
                   /\ n_recv' = n_recv + 1
                   /\ IF msgbox.senders # {}
                        THEN /\ msgbox' =
                                  MbxAdmit(MbxTake(msgbox), FirstWaiter(msgbox.senders),
                                           idx[FirstWaiter(msgbox.senders)])
                             /\ n_sent' = n_sent + 1
                        ELSE /\ msgbox' = MbxTake(msgbox)
                             /\ UNCHANGED n_sent
                   /\ pc' = [pc EXCEPT ![self] = "g_lcdw"]
              ELSE /\ msgbox' = [msgbox EXCEPT !.recv = TRUE]
                   /\ pc' = [pc EXCEPT ![self] = "g_mw"]
                   /\ UNCHANGED <<msg, n_sent, n_recv>>
         /\ UNCHANGED <<ceil_vars, sens_vars, loc_vars, mut_lcd, log_pool,
                        log_pool_put, log_pool_get, n_drop, idx, reg>>
    [] pc[self] = "g_mw" ->
         \* the end of the bounded wait: OS_R_TMO while still waiting, OS_R_MBX once
         \* a sender has handed a pointer over; neither is OS_R_OK: os_dly_wait(30)
         /\ msgbox' = [msgbox EXCEPT !.recv = FALSE]
         /\ msg' = -1
         /\ pc' = [pc EXCEPT ![self] = "g_wait"]
         /\ UNCHANGED <<ceil_vars, sens_vars, loc_vars, mut_lcd, log_pool,
                        log_pool_put, log_pool_get, n_sent, n_recv, n_drop, idx, reg>>
    [] pc[self] = "g_lcdw" ->
         \* os_mut_wait(&mut_lcd, 100)
         /\ lcd_wait(self, "g_lcd", "g_lw")
         /\ UNCHANGED <<ceil_vars, sens_vars, log_vars, loc_vars>>
    [] pc[self] = "g_lw" ->
         \* not OS_R_OK: nothing is rendered; log_pool_get++
         /\ lcd_resume(self, "g_wait")
         /\ log_pool_get' = log_pool_get + 1
         /\ msg' = -1
         /\ UNCHANGED <<ceil_vars, sens_vars, loc_vars, msgbox, log_pool,
                        log_pool_put, n_sent, n_recv, n_drop, idx, reg>>
    [] pc[self] = "g_lcd" ->
         \* LCD_puts("Log:"), LCD_puts(msg), os_mut_release(&mut_lcd); log_pool_get++
         /\ mut_lcd' = MutRelease(mut_lcd, self)
         /\ log_pool_get' = log_pool_get + 1
         /\ msg' = -1
         /\ pc' = [pc EXCEPT ![self] = "g_wait"]
         /\ UNCHANGED <<ceil_vars, sens_vars, loc_vars, msgbox, log_pool,
                        log_pool_put, n_sent, n_recv, n_drop, idx, reg>>
    [] OTHER -> FALSE

EMERGENCY_TEMP == 45

emergency_task ==
  LET self == t_emergency IN
  /\ CASE pc[self] = "e_poll" ->
            \* emergency_flag = sensor_temp > 45; if set os_mut_wait(&mut_lcd,
            \* 0xffff), else os_dly_wait(50)
            /\ emergency_flag' = IF sensor_temp > EMERGENCY_TEMP THEN 1 ELSE 0
            /\ IF sensor_temp > EMERGENCY_TEMP
                 THEN lcd_wait(self, "e_lcd", "e_lw")
                 ELSE UNCHANGED <<pc, mut_lcd>>
       [] pc[self] = "e_lw" ->
            \* resumed with OS_R_MUT, which is not OS_R_OK: no warning is shown;
            \* the LEDs flash, os_dly_wait(50)
            /\ mut_lcd.owner = self
            /\ pc' = [pc EXCEPT ![self] = "e_poll"]
            /\ UNCHANGED <<mut_lcd, emergency_flag>>
       [] pc[self] = "e_lcd" ->
            \* LCD_puts("!!! OVERHEAT !!!"), os_mut_release(&mut_lcd); the LEDs
            \* flash, os_dly_wait(50)
            /\ mut_lcd' = MutRelease(mut_lcd, self)
            /\ pc' = [pc EXCEPT ![self] = "e_poll"]
            /\ UNCHANGED emergency_flag
       [] OTHER -> FALSE
  /\ UNCHANGED <<ceil_vars, log_vars, loc_vars, sem_sensors, sem_holders,
                 sensor_temp, sensor_light, motion_detected>>

(* ---------------- the running system ---------------- *)
AllTasks == {t_temp, t_light, t_motion, t_display, t_logger, t_emergency, t_clock}

\* a caller of the harness looks at the result of an acquire, then is idle
RaIdle ==
  [icpp_acquire |-> [r \in {0, 1} |-> IF r = 1 THEN "granted" ELSE "refused"],
   icpp_release |-> "idle",
   ocpp_acquire |-> [r \in {0, 1} |-> IF r = 1 THEN "granted" ELSE "refused"],
   ocpp_release |-> "idle"]

\* a temp_task that goes on to its LED update whatever icpp_acquire returned
RaTempNoRetry ==
  [icpp_acquire |-> [r \in {0, 1} |-> "t_led"], icpp_release |-> "t_log",
   ocpp_acquire |-> [r \in {0, 1} |-> IF r = 1 THEN "granted" ELSE "refused"],
   ocpp_release |-> "idle"]

\* temp_task: the while loop calls icpp_acquire again on 0
RaTemp ==
  [icpp_acquire |-> [r \in {0, 1} |-> IF r = 1 THEN "t_led" ELSE "t_icpp"],
   icpp_release |-> "t_log",
   ocpp_acquire |-> [r \in {0, 1} |-> IF r = 1 THEN "granted" ELSE "refused"],
   ocpp_release |-> "idle"]

\* light_task: the LED update with the resource on 1, without it on 0
RaLight ==
  [icpp_acquire |-> [r \in {0, 1} |-> IF r = 1 THEN "granted" ELSE "refused"],
   icpp_release |-> "idle",
   ocpp_acquire |-> [r \in {0, 1} |-> IF r = 1 THEN "l_led" ELSE "l_plain"],
   ocpp_release |-> "l_log"]

\* the globals as initialised, the objects as init() leaves them
InitShared ==
  /\ arg = [t \in AllTasks |-> 0]
  /\ mut_ceiling = MutInit
  /\ ceiling_owner = 0
  /\ system_ceiling = 0
  /\ icpp_granted = {}
  /\ ocpp_granted = [t \in AllTasks |-> 0]
  /\ cond_held = [t \in AllTasks |-> FALSE]
  /\ sem_sensors = SemInit(1)
  /\ sem_holders = {}
  /\ mut_lcd = MutInit
  /\ msgbox = MbxInit
  /\ log_pool = [i \in 0..(MSGBOX_SIZE - 1) |-> <<>>]
  /\ log_pool_put = 0
  /\ log_pool_get = 0
  /\ n_sent = 0
  /\ n_recv = 0
  /\ n_drop = 0
  /\ sensor_temp = 20
  /\ sensor_light = 50
  /\ motion_detected = 0
  /\ emergency_flag = 0
  /\ temp = 20
  /\ rising = 1
  /\ light = 50
  /\ darkening = 1
  /\ level = [t \in {t_temp, t_light} |-> 0]
  /\ idx = [t \in {t_temp, t_light} |-> 0]
  /\ reg = [t \in {t_temp, t_light} |-> 0]
  /\ msg = -1
  /\ iter = [t \in {t_temp, t_light} |-> 0]

InitPc ==
  /\ pc = [t \in AllTasks |->
             CASE t = t_temp -> "t_start"
               [] t = t_light -> "l_start"
               [] t = t_motion -> "m_set"
               [] t = t_display -> "d_wait"
               [] t = t_logger -> "g_wait"
               [] t = t_emergency -> "e_poll"
               [] OTHER -> "idle"]
  /\ ra = [t \in AllTasks |->
             IF t = t_temp THEN RaTemp ELSE IF t = t_light THEN RaLight ELSE RaIdle]

Init ==
  /\ InitShared
  /\ InitPc

Next ==
  \/ temp_task
  \/ light_task
  \/ motion_task
  \/ display_task
  \/ logger_task
  \/ emergency_task

Spec == Init /\ [][Next]_vars

\* the tasks that meet at sem_sensors and at the ceiling manager: every task
\* but logger_task, which shares only the mailbox and the LCD with the others
NextSensors ==
  \/ temp_task
  \/ light_task
  \/ motion_task
  \/ display_task
  \/ emergency_task

SpecSensors == Init /\ [][NextSensors]_vars

\* the RTX scheduler runs every task that is ready; a task queued on a mutex
\* that is not passed to it is not ready
FairSensors ==
  /\ WF_vars(temp_task)
  /\ WF_vars(light_task)
  /\ WF_vars(motion_task)
  /\ WF_vars(display_task)
  /\ WF_vars(emergency_task)

SpecSensorsFair == Init /\ [][NextSensors]_vars /\ FairSensors

(* ---------------- the log channel with a backlog of entries ---------------- *)
\* light after k iterations from 50: up by 5 to 90, down by 5 to 10, and again
LightAfter(k) ==
  LET r == k % 32
  IN IF r <= 8 THEN 50 + 5 * r ELSE IF r <= 24 THEN 130 - 5 * r ELSE 5 * r - 110

\* darkening after k iterations
DarkeningAfter(k) == LET r == k % 32 IN IF r < 8 \/ r >= 24 THEN 1 ELSE 0

\* temp after k iterations from 20: up by 1 to 40, down by 1 to 20, and again
TempAfter(k) == LET r == k % 40 IN IF r <= 20 THEN 20 + r ELSE 60 - r

\* rising after k iterations
RisingAfter(k) == IF k % 40 < 20 THEN 1 ELSE 0

\* the state in which light_task has run its first MSGBOX_SIZE - 1 iterations
\* while every other task was still waiting: one entry per iteration is queued
\* and no entry has been taken out
InitLog ==
  LET k == MSGBOX_SIZE - 1 IN
  /\ InitPc
  /\ arg = [t \in AllTasks |-> 0]
  /\ mut_ceiling = MutInit
  /\ ceiling_owner = 0
  /\ system_ceiling = 0
  /\ icpp_granted = {}
  /\ ocpp_granted = [t \in AllTasks |-> 0]
  /\ cond_held = [t \in AllTasks |-> FALSE]
  /\ sem_sensors = SemInit(1)
  /\ sem_holders = {}
  /\ mut_lcd = MutInit
  /\ msgbox = [MbxInit EXCEPT !.msgs = [i \in 1..k |-> i - 1]]
  /\ log_pool = [i \in 0..(MSGBOX_SIZE - 1) |->
                   IF i < k
                     THEN <<"Light", LightAfter(i + 1), room_level(LightAfter(i + 1))>>
                     ELSE <<>>]
  /\ log_pool_put = k
  /\ log_pool_get = 0
  /\ n_sent = k
  /\ n_recv = 0
  /\ n_drop = 0
  /\ sensor_temp = 20
  /\ sensor_light = LightAfter(k)
  /\ motion_detected = 0
  /\ emergency_flag = 0
  /\ temp = 20
  /\ rising = 1
  /\ light = LightAfter(k)
  /\ darkening = 1
  /\ level = [t \in {t_temp, t_light} |->
                IF t = t_light THEN room_level(LightAfter(k)) ELSE 0]
  /\ idx = [t \in {t_temp, t_light} |-> 0]
  /\ reg = [t \in {t_temp, t_light} |-> 0]
  /\ msg = -1
  /\ iter = [t \in {t_temp, t_light} |-> 0]

\* the log channel: its two producers and its consumer
NextLog ==
  \/ temp_task
  \/ light_task
  \/ logger_task

SpecLog == InitLog /\ [][NextLog]_vars

(* ---------------- the sensor walks ---------------- *)
\* the state in which temp_task has run kt cycles, then light_task kl cycles,
\* each alone, and logger_task has taken and shown every entry; from there on
\* the task whose walk is followed takes its cycles, the other one none
InitAfter(kt, kl) ==
  LET text(w) == IF w < kt
                   THEN <<"Temp", TempAfter(w + 1), fan_level(TempAfter(w + 1))>>
                   ELSE <<"Light", LightAfter(w - kt + 1),
                          room_level(LightAfter(w - kt + 1))>>
      last(i) == {w \in 0..(kt + kl - 1) :
                    /\ w % MSGBOX_SIZE = i
                    /\ w + MSGBOX_SIZE > kt + kl - 1}
  IN
  /\ InitPc
  /\ arg = [t \in AllTasks |-> 0]
  /\ mut_ceiling = MutInit
  /\ ceiling_owner = 0
  /\ system_ceiling = 0
  /\ icpp_granted = {}
  /\ ocpp_granted = [t \in AllTasks |-> 0]
  /\ cond_held = [t \in AllTasks |-> FALSE]
  /\ sem_sensors = SemInit(1)
  /\ sem_holders = {}
  /\ mut_lcd = MutInit
  /\ msgbox = MbxInit
  /\ log_pool = [i \in 0..(MSGBOX_SIZE - 1) |->
                   IF last(i) = {} THEN <<>> ELSE text(CHOOSE w \in last(i) : TRUE)]
  /\ log_pool_put = kt + kl
  /\ log_pool_get = kt + kl
  /\ n_sent = kt + kl
  /\ n_recv = kt + kl
  /\ n_drop = 0
  /\ sensor_temp = TempAfter(kt)
  /\ sensor_light = LightAfter(kl)
  /\ motion_detected = 0
  /\ emergency_flag = 0
  /\ temp = TempAfter(kt)
  /\ rising = RisingAfter(kt)
  /\ light = LightAfter(kl)
  /\ darkening = DarkeningAfter(kl)
  /\ level = [t \in {t_temp, t_light} |->
                IF t = t_temp THEN fan_level(TempAfter(kt))
                ELSE IF kl = 0 THEN 0 ELSE room_level(LightAfter(kl))]
  /\ idx = [t \in {t_temp, t_light} |-> 0]
  /\ reg = [t \in {t_temp, t_light} |-> 0]
  /\ msg = -1
  /\ iter = [t \in {t_temp, t_light} |->
               IF t = t_temp THEN (IF kl > 0 THEN MaxTempIter ELSE 0)
               ELSE (IF kt > 0 THEN MaxLightIter ELSE 0)]

\* one of the two walks has gone on for any number of cycles
InitWalk ==
  \/ \E kt \in 0..MaxTempWalk : InitAfter(kt, 0)
  \/ \E kl \in 0..MaxLightWalk : InitAfter(0, kl)

\* the sensor tasks and the task that polls the temperature
NextWalk ==
  \/ temp_task
  \/ light_task
  \/ emergency_task

SpecWalk == InitWalk /\ [][NextWalk]_vars

(* ---------------- call harness of the ceiling manager ---------------- *)
\* the callers of the harness, by rising priority number
CallerOrder == <<t_emergency, t_motion, t_temp, t_light, t_display, t_logger, t_clock>>
Callers == {CallerOrder[i] : i \in 1..NCallers}

InitCeil ==
  /\ InitShared
  /\ pc = [t \in AllTasks |-> "idle"]
  /\ ra = [t \in AllTasks |-> RaIdle]

\* an idle task calls one of the four operations with any ceiling
Call(self) ==
  /\ pc[self] = "idle"
  /\ \/ call_icpp_acquire(self)
     \/ call_icpp_release(self)
     \/ \E r \in 1..MaxCeil : call_ocpp_acquire(self, r)
     \/ \E r \in 1..MaxCeil : call_ocpp_release(self, r)
  /\ UNCHANGED task_vars

\* the caller has looked at the result of its acquire
Return(self) ==
  /\ pc[self] \in {"granted", "refused"}
  /\ pc' = [pc EXCEPT ![self] = "idle"]
  /\ UNCHANGED <<ceil_vars, task_vars>>

NextCeil ==
  \E self \in Callers :
    \/ Call(self)
    \/ ceiling_manager(self)
    \/ Return(self)

SpecCeil == InitCeil /\ [][NextCeil]_vars

\* the RTX scheduler runs every task that is ready: a caller that can take a
\* step takes one in the end; a task queued on a mutex is not ready
FairCeil ==
  \A self \in Callers : WF_vars(Call(self) \/ ceiling_manager(self) \/ Return(self))

SpecCeilFair == InitCeil /\ [][NextCeil]_vars /\ FairCeil

(* ---------------- properties of the ceiling manager ---------------- *)
\* task t takes a step of its own
Steps(t) == pc'[t] # pc[t]

\* the step in which the call f of task t returns r
Returns(t, f, r) == Steps(t) /\ pc'[t] = ra[t][f][r]

\* C1: the ICPP owner is one task at a time: icpp_acquire does not replace an
\* owner (it returns 0 and leaves it), only the owner's own icpp_release
\* clears it, a release by any other task leaves it, and at most one task
\* holds a grant, which is the recorded owner.
C1_IcppSingleOwner ==
  [][/\ ceiling_owner # 0 => ceiling_owner' \in {ceiling_owner, 0}
     /\ \A t \in AllTasks :
          /\ (pc[t] = "icpp_acquire_cs" /\ Steps(t) /\ ceiling_owner # 0)
               => Returns(t, "icpp_acquire", 0) /\ ceiling_owner' = ceiling_owner
          /\ (pc[t] \in {"icpp_release_cs", "icpp_release_mw"} /\ Steps(t)
                /\ ceiling_owner # t)
               => ceiling_owner' = ceiling_owner
     /\ (ceiling_owner # 0 /\ ceiling_owner' = 0)
          => pc[ceiling_owner] = "icpp_release_cs" /\ Steps(ceiling_owner)
     /\ Cardinality(icpp_granted') <= 1
     /\ icpp_granted' \subseteq {ceiling_owner'}]_vars

\* an owner is recorded and another task is inside icpp_acquire or icpp_release
C1_Witness ==
  \E a, b \in AllTasks :
    /\ a # b
    /\ ceiling_owner = a
    /\ icpp_granted = {a}
    /\ pc[b] \in {"icpp_acquire_cs", "icpp_release_cs"}

\* C2: ocpp_acquire(task, R) returns 1 exactly when priority(task) <= R and
\* the system ceiling is unset or not below priority(task), and a call that
\* returns 1 leaves system_ceiling = R.
C2_OcppAcquireIff ==
  [][\A t \in AllTasks :
       /\ (pc[t] = "ocpp_acquire_cs" /\ Steps(t))
            => /\ Returns(t, "ocpp_acquire", 1) <=>
                    ocpp_admit(get_base_priority(t), arg[t], system_ceiling)
               /\ Returns(t, "ocpp_acquire", 1) => system_ceiling' = arg[t]
       /\ (pc[t] = "ocpp_acquire_mw" /\ Steps(t))
            => /\ cond_held[t] => Returns(t, "ocpp_acquire", 1)
               /\ Returns(t, "ocpp_acquire", 1) => system_ceiling' = arg[t]]_vars

\* C3: ocpp_release(task, R) clears system_ceiling exactly when it equals R,
\* whichever task calls, and otherwise leaves it.
C3_OcppReleaseClears ==
  [][\A t \in AllTasks :
       /\ (pc[t] = "ocpp_release_cs" /\ Steps(t))
            => system_ceiling' =
                 IF system_ceiling = arg[t] THEN 0 ELSE system_ceiling
       /\ (pc[t] = "ocpp_release_mw" /\ Steps(t))
            => /\ cond_held[t] => system_ceiling' = 0
               /\ system_ceiling # arg[t] => system_ceiling' = system_ceiling]_vars

\* C4: at most one OCPP grant is outstanding, and a set system ceiling is the
\* ceiling of exactly one outstanding grant.
C4_OcppSingleGrant ==
  LET G == {t \in AllTasks : ocpp_granted[t] # 0}
  IN /\ Cardinality(G) <= 1
     /\ system_ceiling # 0 =>
          Cardinality({t \in G : ocpp_granted[t] = system_ceiling}) = 1

(* ---------------- properties of the log channel ---------------- *)
Producers == {t_temp, t_light}

LogSent(t) ==
  \/ pc[t] \in {"t_send", "l_send"} /\ (msgbox.recv \/ ~MbxFull(msgbox))
  \/ pc[t] \in {"t_mw", "l_mw"} /\ t \notin msgbox.senders

\* os_mbx_send of producer t returns OS_R_TMO in this step
LogSendFailed(t) == pc[t] \in {"t_mw", "l_mw"} /\ t \in msgbox.senders

C7_LedUnderOwnership == pc[t_temp] = "t_led" => ceiling_owner = t_temp

\* temp_task is at its LED update while light_task is inside the ceiling manager
C7_Witness ==
  /\ pc[t_temp] = "t_led"
  /\ pc[t_light] \in {"ocpp_acquire_cs", "ocpp_acquire_mw"}

\* C8: sensor_temp, sensor_light and motion_detected are written and read by
\* a task only while it holds the token of sem_sensors.
C8_SensorAccessUnderLock ==
  [][\A t \in AllTasks :
       /\ (Steps(t) /\ <<sensor_temp, sensor_light, motion_detected>>'
                         # <<sensor_temp, sensor_light, motion_detected>>)
            => t \in sem_holders
       /\ (t = t_light /\ pc[t] = "l_motion" /\ Steps(t)) => t \in sem_holders]_vars

\* the positions of the log-emit section: read cursor, fill slot, enqueue,
\* increment cursor
LogSection == [t \in Producers |->
                 IF t = t_temp
                   THEN {"t_fill", "t_send", "t_mw", "t_inc", "t_store"}
                   ELSE {"l_fill", "l_send", "l_mw", "l_inc", "l_store"}]

\* C9: temp_task and light_task are never inside their log-emit sections at
\* the same time, and an increment stores the cursor's value plus one.
C9_LogSectionsExclusive ==
  [][/\ ~(pc[t_temp] \in LogSection[t_temp] /\ pc[t_light] \in LogSection[t_light])
     /\ \A t \in Producers :
          (pc[t] \in {"t_store", "l_store"} /\ Steps(t))
            => log_pool_put' = log_pool_put + 1]_vars

\* the positions inside the section guarded by sem_sensors
GuardedSection == {"t_crit", "l_crit", "d_crit"}

\* the positions of a task queued in os_sem_wait(&sem_sensors, 50)
SemWaiting == {"t_sw", "l_sw", "d_sw"}

\* C10: the token count is 0 or 1, at most one task is inside a guarded
\* section, and a task that was given the token and has left os_sem_wait is
\* inside its guarded section, where it sends the token back.
C10_TokenReturned ==
  /\ sem_sensors.tokens \in {0, 1}
  /\ Cardinality({t \in AllTasks : pc[t] \in GuardedSection}) <= 1
  /\ \A t \in sem_holders : pc[t] \in GuardedSection \cup SemWaiting

(* ---------------- properties of the task cycles ---------------- *)
\* the positions of a task inside the ceiling manager
InCeilingManager ==
  {"icpp_acquire_mw", "icpp_acquire_cs", "icpp_release_mw", "icpp_release_cs",
   "ocpp_acquire_mw", "ocpp_acquire_cs", "ocpp_release_mw", "ocpp_release_cs"}

TempTable(t) ==
  CASE t \in 20..24 -> 0
    [] t \in 25..29 -> 1
    [] t \in 30..34 -> 2
    [] t \in 35..44 -> 3

LightTable(l) ==
  CASE l \in 0..24 -> 0
    [] l \in 25..49 -> 1
    [] l \in 50..74 -> 2
    [] l \in 75..100 -> 3

\* C12: the level a sensor cycle derives is the threshold table applied to the
\* value that cycle has just computed (temperature: 0 on 20..24, 1 on 25..29,
\* 2 on 30..34, 3 on 35..44; light: 0 below 25, 1 below 50, 2 below 75, else 3);
\* value and level then stay as they are until the cycle ends, so the level
\* given to the LEDs is that level, and the text the cycle writes into its log
\* slot carries that value and that level.
C12_LevelFromTable ==
  [][/\ \A t \in 20..44 : fan_level(t) = TempTable(t)
     /\ \A l \in 0..100 : room_level(l) = LightTable(l)
     /\ (pc[t_temp] = "t_start" /\ Steps(t_temp))
          => level'[t_temp] = TempTable(temp')
     /\ pc[t_temp] # "t_start" => (temp' = temp /\ level'[t_temp] = level[t_temp])
     /\ (pc[t_temp] = "t_fill" /\ Steps(t_temp))
          => log_pool'[idx[t_temp]] = <<"Temp", temp, TempTable(temp)>>
     /\ (pc[t_light] = "l_start" /\ Steps(t_light))
          => level'[t_light] = LightTable(light')
     /\ pc[t_light] # "l_start" => (light' = light /\ level'[t_light] = level[t_light])
     /\ (pc[t_light] = "l_fill" /\ Steps(t_light))
          => log_pool'[idx[t_light]] = <<"Light", light, LightTable(light)>>]_vars

\* temp_task has reached 35 on its way up and written the text of that cycle
C12_Witness ==
  /\ pc[t_temp] = "t_send"
  /\ temp = 35
  /\ log_pool[idx[t_temp]] = <<"Temp", 35, 3>>

(* ---------------- the logger ---------------- *)
\* C13: every entry logger_task takes from the mailbox is shown on the display
\* (LCD_puts of that entry, under mut_lcd) before the logger counts it with
\* log_pool_get++ and waits for the next one: the count moves only in the step
\* that shows the entry.
C13_RenderedBeforeCounted ==
  [][log_pool_get' # log_pool_get => pc[t_logger] = "g_lcd"]_vars

(* ---------------- termination of the ceiling manager ---------------- *)
\* C14: the operations of the ceiling manager never block their caller: under
\* fair scheduling every call of icpp_acquire, icpp_release, ocpp_acquire and
\* ocpp_release returns, with success or with failure.
C14_EveryCallReturns ==
  \A t \in Callers : (pc[t] \in InCeilingManager) ~> (pc[t] \notin InCeilingManager)

(* ---------------- independence of the two protocols ---------------- *)
InIcpp == {"icpp_acquire_mw", "icpp_acquire_cs", "icpp_release_mw", "icpp_release_cs"}

InOcpp == {"ocpp_acquire_mw", "ocpp_acquire_cs", "ocpp_release_mw", "ocpp_release_cs"}

\* C15: the two protocols are independent: no step of icpp_acquire or
\* icpp_release changes system_ceiling, no step of ocpp_acquire or ocpp_release
\* changes ceiling_owner, and an icpp_acquire or ocpp_acquire that returns 0
\* leaves ceiling_owner and system_ceiling as they were; the call itself, up
\* to the wait for mut_ceiling, changes neither.
C15_ProtocolsIndependent ==
  [][\A t \in Callers :
       /\ (Steps(t) /\ (pc[t] \in InIcpp \/ pc'[t] \in InIcpp))
            => system_ceiling' = system_ceiling
       /\ (Steps(t) /\ (pc[t] \in InOcpp \/ pc'[t] \in InOcpp))
            => ceiling_owner' = ceiling_owner
       /\ (Returns(t, "icpp_acquire", 0) \/ Returns(t, "ocpp_acquire", 0))
            => UNCHANGED <<ceiling_owner, system_ceiling>>]_vars

\* both protocols are in use, and an acquire has just been refused
C15_Witness ==
  /\ ceiling_owner # 0
  /\ system_ceiling # 0
  /\ \E t \in Callers : pc[t] = "refused"

C17_RetryLoopExits ==
  /\ [](ceiling_owner \in {0, t_temp})
  /\ (pc[t_temp] = "t_icpp") ~> (pc[t_temp] = "t_led")
  /\ (pc[t_temp] = "t_led") ~> (pc[t_temp] = "t_log")

(* ---------------- the temperature and the emergency ---------------- *)
\* C18: the temperature temp_task works with and publishes stays within 20..40
\* in every reachable state (up by one to 40, where it turns, down by one to
\* 20, where it turns again), so sensor_temp never exceeds the threshold 45:
\* emergency_flag is never set and emergency_task never comes to its wait
\* without timeout for mut_lcd.
C18_NoEmergency ==
  /\ temp \in 20..40
  /\ temp = 40 => rising = 0
  /\ temp = 20 => rising = 1
  /\ sensor_temp \in 20..40
  /\ sensor_temp <= EMERGENCY_TEMP
  /\ emergency_flag = 0
  /\ pc[t_emergency] = "e_poll"
  /\ mut_lcd.owner # t_emergency
  /\ t_emergency \notin mut_lcd.waiters

\* temp_task has published the top of its walk and has turned
C18_Witness ==
  /\ sensor_temp = 40
  /\ rising = 0
  /\ pc[t_temp] = "t_icpp"

(* ---------------- the slots of the log pool ---------------- *)
\* the slots whose pointers are waiting in the mailbox
PendingSlots == {msgbox.msgs[i] : i \in 1..Len(msgbox.msgs)}

\* C19: no producer writes into a slot of log_pool whose pointer is pending in
\* the mailbox or is in the hands of logger_task, so every entry the logger
\* dequeues still holds the text its producer wrote when the entry was
\* enqueued; this also after an enqueue that failed on a full mailbox.
C19_NoWriteToPendingSlot ==
  [][\A t \in Producers :
       (pc[t] \in {"t_fill", "l_fill"} /\ Steps(t))
         => /\ idx[t] \notin PendingSlots
            /\ idx[t] # msg]_vars

(* ---------------- the three locking primitives ---------------- *)
\* the primitives task t holds: the token of sem_sensors, mut_lcd, mut_ceiling
Held(t) ==
  (IF t \in sem_holders THEN {"sem_sensors"} ELSE {}) \cup
  (IF mut_lcd.owner = t THEN {"mut_lcd"} ELSE {}) \cup
  (IF mut_ceiling.owner = t THEN {"mut_ceiling"} ELSE {})

\* the primitives task t is queued on
Awaited(t) ==
  (IF t \in sem_sensors.waiters THEN {"sem_sensors"} ELSE {}) \cup
  (IF t \in mut_lcd.waiters THEN {"mut_lcd"} ELSE {}) \cup
  (IF t \in mut_ceiling.waiters THEN {"mut_ceiling"} ELSE {})

\* C20: in every reachable state each task holds at most one of sem_sensors,
\* mut_lcd and mut_ceiling, and no task waits for one of them while it holds
\* another, so that no cycle of tasks waiting for each other's locks can form.
C20_OneLockAtATime ==
  \A t \in AllTasks :
    /\ Cardinality(Held(t)) <= 1
    /\ Awaited(t) # {} => Held(t) = {}

====
